---- MODULE Spec2Model ----
(***************************************************************************)
(* Behaviour layer of the landing page (src/script.js): the modal          *)
(* subsystem (showDemoModal, showVideoModal, closeModal,                   *)
(* showSuccessMessage, addModalStyles), the call-to-action buttons with    *)
(* their ripple, the Escape handler, the scroll-animation observer, the    *)
(* smooth scroll of the in-page anchors and the header's scroll shadow.    *)
(*                                                                         *)
(* The browser is single threaded: every action below is one task of the   *)
(* event loop (an event handler, a timer callback, an animation-frame      *)
(* callback) run to completion.  Time is counted in the units of           *)
(* setTimeout's argument and advances in steps of Quantum; a timer runs    *)
(* when its age reaches its delay, and the clock does not pass a timer     *)
(* that is due.                                                            *)
(***************************************************************************)
EXTENDS Integers, Sequences, FiniteSets, TLC

VARIABLES
    head,          \* document.head: the ids of the injected <style> nodes, in order
    body,          \* the .modal-overlay children of document.body, in document order
    bodyOverflow,  \* document.body.style.overflow
    nodes,         \* every overlay node ever created (index = identity), attached or not
    ripples,       \* per call-to-action button, the ripple <span>s it holds
    timers,        \* pending setTimeout callbacks, in creation order
    frames,        \* pending requestAnimationFrame callbacks (the overlay each captured)
    errors,        \* exceptions thrown out of a handler or callback so far
    dataDelay,     \* per animatable element, its data-delay attribute
    observed,      \* the elements registered with the IntersectionObserver
    visible,       \* the elements carrying the 'visible' class
    intersected,   \* history: the elements reported intersecting at least once
    reveals,       \* history: per element, how often classList.add('visible') ran
    last,          \* history: the task that ran last (Untraced: not recorded)
    pageYOffset,   \* window.pageYOffset
    scrollRequest, \* the top of the window.scrollTo the browser is carrying out, if any
    scrollPending, \* a scroll event is queued for the window
    boxShadow,     \* header.style.boxShadow
    lastScroll     \* initHeaderScroll's lastScroll

vars == <<head, body, bodyOverflow, nodes, ripples, timers, frames, errors,
          dataDelay, observed, visible, intersected, reveals, last,
          pageYOffset, scrollRequest, scrollPending, boxShadow, lastScroll>>

modalVars == <<head, body, bodyOverflow, nodes, ripples, frames, errors>>
animVars  == <<dataDelay, observed, visible, intersected, reveals>>
scrollVars == <<pageYOffset, scrollRequest, scrollPending, boxShadow, lastScroll>>

-----------------------------------------------------------------------------
(* Bounds of the model *)

MaxOverlays == 2    \* overlays opened (created or still pending) in one run
MaxTimers == 3      \* setTimeout callbacks pending at one time
NumElements == 2    \* animatable elements in the document
MaxScroll == 60     \* the largest scroll offset of the window (document - viewport)

(* Program constants *)

Quantum == 100          \* granularity of every delay in the script
OpenDelay == 300        \* call-to-action click -> showDemoModal
CloseDelay == 300       \* closeModal -> overlay.remove()
RippleDuration == 600   \* createRipple -> ripple.remove()
DelayFactor == 100      \* data-delay -> milliseconds
HeaderOffset == 80      \* initSmoothScroll's headerOffset
ShadowThreshold == 50   \* initHeaderScroll's threshold on the scroll offset

-----------------------------------------------------------------------------
(* The host document *)

CtaButtons == {"heroCta", "ctaButton", "headerCta"}

Keys == {"Escape", "Enter"}

Elements == 1..NumElements

Absent == "<absent>"    \* dataset.delay of an element without the attribute

DelayAttrs == {Absent, "", "0", "1", "2"}

\* The elements that an in-page anchor can name, and the offset of each from the
\* top of the document: one under the header's height, one that a scroll can bring
\* under the header, one too close to the end of the document for that.
Targets == {"#hero", "#features", "#contact"}

Position ==
    [t \in Targets |->
        CASE t = "#hero"     -> 0
          [] t = "#features" -> HeaderOffset + ShadowThreshold
          [] t = "#contact"  -> HeaderOffset + MaxScroll + 1]

\* The href of the a[href^="#"] links of the page
Hrefs == Targets \cup {"#", "#missing"}

Shadow == "0 4px 30px rgba(0, 0, 0, 0.1)"

(* The elements that each innerHTML template creates inside the overlay *)

DemoMarkup ==
    {"modal-content", "modal-close", "modal-icon", "modal-title", "modal-text"}

VideoMarkup ==
    {"modal-content", "video-modal", "modal-close", "video-placeholder", "play-icon"}

SuccessMarkup ==
    {"modal-content", "success-content", "success-icon", "modal-title",
     "modal-text", "modal-submit"}

-----------------------------------------------------------------------------
(* DOM helpers *)

querySelector(o, sel) == sel \in nodes[o].markup

IsInfoRequest(o) == ~ querySelector(o, "video-modal")

InDocument(o) == \E i \in DOMAIN body : body[i] = o

Remove(s, o) == SelectSeq(s, LAMBDA x : x # o)

RemoveAt(s, i) == SubSeq(s, 1, i - 1) \o SubSeq(s, i + 1, Len(s))

Count(s, x) == Cardinality({i \in DOMAIN s : s[i] = x})

Event(ev, o, k) == [ev |-> ev, o |-> o, k |-> k]

\* The history of tasks is kept only when Init turned it on.
Untraced == Event("untraced", 0, "")

Task(ev, o, k) == last' = IF last = Untraced THEN last ELSE Event(ev, o, k)

-----------------------------------------------------------------------------
(* Timers *)

\* age counts the time since the call; opened (history) is the number of overlays
\* created before a close timer was set.
setTimeout(T, kind, target, ms) ==
    Append(T, [kind |-> kind, target |-> target,
               delay |-> IF ms < 0 THEN 0 ELSE ms, age |-> 0,
               opened |-> IF kind = "close" THEN Len(nodes) ELSE 0])

Due(t) == t.age >= t.delay

\* Timers with the same delay run in the order they were set.
CanFire(i) ==
    /\ Due(timers[i])
    /\ \A j \in 1..(i - 1) : ~ (Due(timers[j]) /\ timers[j].delay = timers[i].delay)

Pending(kind) == {i \in DOMAIN timers : timers[i].kind = kind}

Closing(o) == \E i \in Pending("close") : timers[i].target = o

Room(n) == Len(timers) + n <= MaxTimers

OpenRoom == Len(nodes) + Cardinality(Pending("open")) < MaxOverlays

\* An animation frame comes within one Quantum (a frame lasts about 16 units).
Tick ==
    /\ timers # <<>>
    /\ frames = <<>>
    /\ \A i \in DOMAIN timers : ~ Due(timers[i])
    /\ timers' = [i \in DOMAIN timers |-> [timers[i] EXCEPT !.age = @ + Quantum]]
    /\ Task("tick", 0, "")
    /\ UNCHANGED <<modalVars, animVars, scrollVars>>

-----------------------------------------------------------------------------
(* Modal subsystem *)

addModalStylesUnchecked(h) == Append(h, "modal-styles")

addModalStyles(h) ==
    IF Count(h, "modal-styles") > 0 THEN h ELSE Append(h, "modal-styles")

addRippleStyles(h) ==
    IF Count(h, "ripple-styles") > 0 THEN h ELSE Append(h, "ripple-styles")

\* overlay.querySelector(sel).addEventListener(...) throws on a null result,
\* and nothing after the throw runs.
DemoNode ==
    LET close == "modal-close" \in DemoMarkup
        form  == "demoForm" \in DemoMarkup
    IN  [markup |-> DemoMarkup, active |-> FALSE,
         onClose |-> close, onBackdrop |-> close, onSubmit |-> close /\ form,
         threw |-> ~ (close /\ form)]

VideoNode ==
    LET close == "modal-close" \in VideoMarkup
    IN  [markup |-> VideoMarkup, active |-> FALSE,
         onClose |-> close, onBackdrop |-> close, onSubmit |-> FALSE,
         threw |-> ~ close]

Open(node) ==
    /\ head' = addModalStyles(head)
    /\ nodes' = Append(nodes, node)
    /\ body' = Append(body, Len(nodes) + 1)
    /\ bodyOverflow' = "hidden"
    /\ frames' = Append(frames, Len(nodes) + 1)
    /\ errors' = IF node.threw THEN errors + 1 ELSE errors

showDemoModal == Open(DemoNode)

showVideoModal == Open(VideoNode)

closeModal(o) ==
    /\ nodes' = [nodes EXCEPT ![o].active = FALSE]
    /\ timers' = setTimeout(timers, "close", o, CloseDelay)
    /\ UNCHANGED <<head, body, bodyOverflow, ripples, frames, errors>>

showSuccessMessage(o) ==
    /\ nodes' = [nodes EXCEPT ![o].markup = SuccessMarkup \cup {"modal-close"},
                              ![o].onClose = TRUE,
                              ![o].onSubmit = FALSE]
    /\ UNCHANGED <<head, body, bodyOverflow, ripples, timers, frames, errors>>

-----------------------------------------------------------------------------
(* Event handlers *)

createRipple(b) ==
    /\ ripples' = [ripples EXCEPT ![b] = @ + 1]
    /\ head' = addRippleStyles(head)

ClickCtaEager(b) ==
    /\ Room(2)
    /\ OpenRoom
    /\ ripples' = [ripples EXCEPT ![b] = @ + 1]
    /\ timers' = setTimeout(timers, "ripple", b, RippleDuration)
    /\ head' = addModalStyles(addRippleStyles(head))
    /\ nodes' = Append(nodes, DemoNode)
    /\ body' = Append(body, Len(nodes) + 1)
    /\ bodyOverflow' = "hidden"
    /\ frames' = Append(frames, Len(nodes) + 1)
    /\ errors' = errors + 1
    /\ Task("clickCta", 0, "")
    /\ UNCHANGED <<animVars, scrollVars>>

ClickCta(b) ==
    /\ Room(2)
    /\ OpenRoom
    /\ createRipple(b)
    /\ timers' = setTimeout(setTimeout(timers, "ripple", b, RippleDuration),
                            "open", 0, OpenDelay)
    /\ Task("clickCta", 0, "")
    /\ UNCHANGED <<body, bodyOverflow, nodes, frames, errors, animVars, scrollVars>>

ClickVideo ==
    /\ OpenRoom
    /\ showVideoModal
    /\ Task("clickVideo", 0, "")
    /\ UNCHANGED <<ripples, timers, animVars, scrollVars>>

Controls == {"modal-close", "modal-submit"}

\* A click on a control inside the panel of an attached overlay (a click on any
\* other element of the panel reaches only the overlay's listener, which ignores
\* it: e.target is not the overlay).
ClickPanel(o, el) ==
    /\ InDocument(o)
    /\ querySelector(o, el)
    /\ Room(IF el = "modal-submit" THEN 2 ELSE 1)
    /\ Task("clickPanel", o, el)
    /\ UNCHANGED <<animVars, scrollVars>>
    /\ IF el = "modal-close" /\ nodes[o].onClose
         THEN closeModal(o)
       ELSE IF el = "modal-submit"
         \* onclick: querySelector('.modal-close')?.click() || closeModal(...)
         THEN /\ nodes' = [nodes EXCEPT ![o].active = FALSE]
              /\ timers' = IF querySelector(o, "modal-close") /\ nodes[o].onClose
                             THEN setTimeout(setTimeout(timers, "close", o, CloseDelay),
                                             "close", o, CloseDelay)
                             ELSE setTimeout(timers, "close", o, CloseDelay)
              /\ UNCHANGED <<head, body, bodyOverflow, ripples, frames, errors>>
       ELSE UNCHANGED <<modalVars, timers>>

\* A click on the backdrop itself (e.target === overlay).
ClickBackdrop(o) ==
    /\ InDocument(o)
    /\ nodes[o].onBackdrop
    /\ Room(1)
    /\ closeModal(o)
    /\ Task("clickBackdrop", o, "")
    /\ UNCHANGED <<animVars, scrollVars>>

\* A submit action on the info-request panel: the handler runs if one is attached.
Submit(o) ==
    /\ InDocument(o)
    /\ IsInfoRequest(o)
    /\ IF nodes[o].onSubmit
         THEN showSuccessMessage(o)
         ELSE UNCHANGED <<modalVars, timers>>
    /\ Task("submit", o, "")
    /\ UNCHANGED <<animVars, scrollVars>>

KeydownUnguarded(key) ==
    /\ Room(1)
    /\ IF key = "Escape"
         THEN IF body # <<>>
                THEN closeModal(Head(body))
                ELSE /\ errors' = errors + 1
                     /\ UNCHANGED <<head, body, bodyOverflow, nodes, ripples, frames, timers>>
         ELSE UNCHANGED <<modalVars, timers>>
    /\ Task("keydown", 0, key)
    /\ UNCHANGED <<animVars, scrollVars>>

Keydown(key) ==
    /\ Room(1)
    /\ IF key = "Escape" /\ body # <<>>
         THEN closeModal(Head(body))
         ELSE UNCHANGED <<modalVars, timers>>
    /\ Task("keydown", 0, key)
    /\ UNCHANGED <<animVars, scrollVars>>

-----------------------------------------------------------------------------
(* Callbacks *)

AnimationFrame(i) ==
    /\ i = 1
    /\ nodes' = [nodes EXCEPT ![frames[i]].active = TRUE]
    /\ frames' = Tail(frames)
    /\ Task("frame", frames[i], "")
    /\ UNCHANGED <<head, body, bodyOverflow, ripples, timers, errors, animVars, scrollVars>>

FireOpen(i) ==
    /\ timers[i].kind = "open"
    /\ CanFire(i)
    /\ timers' = RemoveAt(timers, i)
    /\ showDemoModal
    /\ Task("timer:open", Len(nodes) + 1, "")
    /\ UNCHANGED <<ripples, animVars, scrollVars>>

FireClose(i) ==
    /\ timers[i].kind = "close"
    /\ CanFire(i)
    /\ timers' = RemoveAt(timers, i)
    /\ body' = Remove(body, timers[i].target)
    /\ bodyOverflow' = ""
    /\ Task("timer:close", timers[i].target, "")
    /\ UNCHANGED <<head, nodes, ripples, frames, errors, animVars, scrollVars>>

FireRipple(i) ==
    /\ timers[i].kind = "ripple"
    /\ CanFire(i)
    /\ timers' = RemoveAt(timers, i)
    /\ ripples' = [ripples EXCEPT ![timers[i].target] = @ - 1]
    /\ Task("timer:ripple", 0, "")
    /\ UNCHANGED <<head, body, bodyOverflow, nodes, frames, errors, animVars, scrollVars>>

-----------------------------------------------------------------------------
(* Scroll-triggered animations *)

Digits == <<"0", "1", "2", "3", "4", "5", "6", "7", "8", "9">>

\* Number(s) for the attribute strings of the model
ToNumber(s) == IF s = "" THEN 0 ELSE (CHOOSE n \in 1..10 : Digits[n] = s) - 1

\* entry.target.dataset.delay || 0
delayOf(e) == IF dataDelay[e] = Absent \/ dataDelay[e] = "" THEN "0" ELSE dataDelay[e]

revealTimeoutUnscaled(e) == ToNumber(delayOf(e))

revealTimeout(e) == ToNumber(delayOf(e)) * DelayFactor

unobserveNothing(S, e) == S

unobserve(S, e) == S \ {e}

RECURSIVE forEachEntry(_, _, _)
\* entries.forEach: the timers set, in target order, for the intersecting entries
forEachEntry(T, isIntersecting, todo) ==
    IF todo = {} THEN T
    ELSE LET e == CHOOSE x \in todo : \A y \in todo : x <= y
         IN  forEachEntry(IF isIntersecting[e]
                            THEN setTimeout(T, "reveal", e, revealTimeout(e))
                            ELSE T,
                          isIntersecting, todo \ {e})

RECURSIVE unobserveAll(_, _)
unobserveAll(S, hit) ==
    IF hit = {} THEN S
    ELSE LET e == CHOOSE x \in hit : TRUE
         IN  unobserveAll(unobserve(S, e), hit \ {e})

\* The observer's callback, given one entry for each target in DOMAIN isIntersecting
ObserverCallback(isIntersecting) ==
    LET hit == {e \in DOMAIN isIntersecting : isIntersecting[e]}
    IN  /\ DOMAIN isIntersecting # {}
        /\ timers' = forEachEntry(timers, isIntersecting, DOMAIN isIntersecting)
        /\ observed' = unobserveAll(observed, hit)
        /\ intersected' = intersected \cup hit
        /\ Task("intersection", 0, "")
        /\ UNCHANGED <<modalVars, scrollVars, dataDelay, visible, reveals>>

FireReveal(i) ==
    /\ timers[i].kind = "reveal"
    /\ CanFire(i)
    /\ timers' = RemoveAt(timers, i)
    /\ visible' = visible \cup {timers[i].target}
    /\ reveals' = [reveals EXCEPT ![timers[i].target] = @ + 1]
    /\ Task("timer:reveal", timers[i].target, "")
    /\ UNCHANGED <<modalVars, scrollVars, dataDelay, observed, intersected>>

-----------------------------------------------------------------------------
(* Smooth scroll and the header's shadow *)

\* document.querySelector(targetId) for the href of a link
targetElement(href) == IF href \in Targets THEN href ELSE Absent

\* targetElement.getBoundingClientRect().top: relative to the viewport
elementPosition(t) == Position[t] - pageYOffset

offsetPositionOfViewport(t) == elementPosition(t) - HeaderOffset

offsetPosition(t) == elementPosition(t) + pageYOffset - HeaderOffset

\* The click listener of an a[href^="#"] link
ClickAnchor(href) ==
    /\ IF href # "#" /\ targetElement(href) # Absent
          THEN scrollRequest' = <<offsetPosition(targetElement(href))>>
          ELSE UNCHANGED scrollRequest
    /\ Task("anchor", 0, href)
    /\ UNCHANGED <<modalVars, animVars, timers,
                   pageYOffset, scrollPending, boxShadow, lastScroll>>

\* The browser keeps the scroll offset within 0..MaxScroll
Clamp(y) == IF y < 0 THEN 0 ELSE IF y > MaxScroll THEN MaxScroll ELSE y

\* The browser carries out the scroll that window.scrollTo asked for
SmoothScroll ==
    /\ scrollRequest # <<>>
    /\ pageYOffset' = Clamp(scrollRequest[1])
    /\ scrollRequest' = <<>>
    /\ scrollPending' = (scrollPending \/ pageYOffset' # pageYOffset)
    /\ Task("scrollTo", 0, "")
    /\ UNCHANGED <<modalVars, animVars, timers, boxShadow, lastScroll>>

\* The user scrolls the window (wheel, keyboard, scroll bar), which ends a scroll
\* the browser was carrying out
UserScroll(y) ==
    /\ y # pageYOffset
    /\ pageYOffset' = y
    /\ scrollRequest' = <<>>
    /\ scrollPending' = TRUE
    /\ Task("wheel", 0, "")
    /\ UNCHANGED <<modalVars, animVars, timers, boxShadow, lastScroll>>

OnScrollDirectional ==
    /\ scrollPending
    /\ scrollPending' = FALSE
    /\ LET currentScroll == pageYOffset
       IN  /\ boxShadow' = IF currentScroll > ShadowThreshold /\ currentScroll >= lastScroll
                              THEN Shadow ELSE "none"
           /\ lastScroll' = currentScroll
    /\ Task("scroll", 0, "")
    /\ UNCHANGED <<modalVars, animVars, timers, pageYOffset, scrollRequest>>

\* The scroll listener of the window
OnScroll ==
    /\ scrollPending
    /\ scrollPending' = FALSE
    /\ LET currentScroll == pageYOffset
       IN  /\ boxShadow' = IF currentScroll > ShadowThreshold THEN Shadow ELSE "none"
           /\ lastScroll' = currentScroll
    /\ Task("scroll", 0, "")
    /\ UNCHANGED <<modalVars, animVars, timers, pageYOffset, scrollRequest>>

-----------------------------------------------------------------------------
(* Specifications *)

InitDocument ==
    /\ head = <<>>
    /\ body = <<>>
    /\ bodyOverflow = ""
    /\ nodes = <<>>
    /\ ripples = [b \in CtaButtons |-> 0]
    /\ timers = <<>>
    /\ frames = <<>>
    /\ errors = 0
    /\ observed = Elements
    /\ visible = {}
    /\ intersected = {}
    /\ reveals = [e \in Elements |-> 0]
    /\ pageYOffset = 0
    /\ scrollRequest = <<>>
    /\ scrollPending = FALSE
    /\ boxShadow = ""
    /\ lastScroll = 0

Init ==
    /\ InitDocument
    /\ dataDelay = [e \in Elements |-> Absent]
    /\ last = Untraced

Next ==
    \/ \E b \in CtaButtons : ClickCta(b)
    \/ ClickVideo
    \/ \E o \in DOMAIN nodes : \E el \in Controls : ClickPanel(o, el)
    \/ \E o \in DOMAIN nodes : ClickBackdrop(o)
    \/ \E o \in DOMAIN nodes : Submit(o)
    \/ \E key \in Keys : Keydown(key)
    \/ \E i \in DOMAIN frames : AnimationFrame(i)
    \/ \E i \in DOMAIN timers : FireOpen(i)
    \/ \E i \in DOMAIN timers : FireClose(i)
    \/ \E i \in DOMAIN timers : FireRipple(i)
    \/ Tick

Spec == Init /\ [][Next]_vars

\* The same program with the history of tasks recorded
TracedInit ==
    /\ InitDocument
    /\ dataDelay = [e \in Elements |-> Absent]
    /\ last = Event("DOMContentLoaded", 0, "")

TracedSpec == TracedInit /\ [][Next]_vars

AnimInit ==
    /\ InitDocument
    /\ dataDelay \in [Elements -> DelayAttrs]
    /\ last = Event("DOMContentLoaded", 0, "")

AnimNext ==
    \/ \E S \in SUBSET observed : \E f \in [S -> BOOLEAN] : ObserverCallback(f)
    \/ \E i \in DOMAIN timers : FireReveal(i)
    \/ Tick

AnimSpec == AnimInit /\ [][AnimNext]_vars

ScrollNext ==
    \/ \E href \in Hrefs : ClickAnchor(href)
    \/ SmoothScroll
    \/ \E y \in 0..MaxScroll : UserScroll(y)
    \/ OnScroll

ScrollSpec == TracedInit /\ [][ScrollNext]_vars

-----------------------------------------------------------------------------
(* Properties of the modal subsystem *)

Attached == {body[i] : i \in DOMAIN body}

CloseTimers(T, o) == {i \in DOMAIN T : T[i].kind = "close" /\ T[i].target = o}

OpenTimers(T) == {i \in DOMAIN T : T[i].kind = "open"}

\* C1: the document holds at most one modal overlay at any time (an Open while an
\* overlay is in the document adds no second one).
AtMostOneOverlay == Len(body) <= 1

\* C2: no operation ever raises an error: every DOM lookup that may find nothing
\* is guarded.
NoErrorRaised == errors = 0

\* C3: a submit action on an attached info-request overlay leaves it in the
\* document showing the confirmation panel, with a working close control.
SubmitShowsSuccess ==
    last.ev = "submit" =>
        /\ InDocument(last.o)
        /\ querySelector(last.o, "success-content")
        /\ querySelector(last.o, "modal-close")
        /\ nodes[last.o].onClose

\* C4: every Close removes 'active' at once, the overlay stays in the document
\* during the 300 units that follow it, then the overlay is removed and background
\* scroll restored; with no Open since the Close, no overlay remains.
CloseRemovesAfterDelay ==
    [][\A o \in DOMAIN nodes :
          /\ Cardinality(CloseTimers(timers', o)) > Cardinality(CloseTimers(timers, o))
                => ~ nodes'[o].active
          /\ \A i \in CloseTimers(timers, o) :
                /\ timers[i].age < CloseDelay => InDocument(o)
                /\ FireClose(i) =>
                      /\ timers[i].age = CloseDelay
                      /\ o \notin {body'[j] : j \in DOMAIN body'}
                      /\ bodyOverflow' = ""
                      /\ (timers[i].opened = Len(nodes) => body' = <<>>)
      ]_vars

\* C5: once Close has begun on an overlay, the overlay is not active again before
\* it is removed.
ClosingNeverActive ==
    \A o \in Attached : Closing(o) => ~ nodes[o].active

\* C6: Escape with no overlay in the document changes nothing (no node, no timer,
\* no change of the scroll flag); Escape with an overlay present starts Close on
\* the first overlay of the document.
EscapeClosesOnlyWhenPresent ==
    [][(last'.ev = "keydown" /\ last'.k = "Escape") =>
          IF body = <<>>
            THEN UNCHANGED <<modalVars, timers>>
            ELSE /\ ~ nodes'[Head(body)].active
                 /\ Len(timers') = Len(timers) + 1
                 /\ timers'[Len(timers')].kind = "close"
                 /\ timers'[Len(timers')].target = Head(body)
                 /\ timers'[Len(timers')].delay = CloseDelay
                 /\ timers'[Len(timers')].age = 0
                 /\ UNCHANGED <<head, body, bodyOverflow, ripples, frames, errors>>
      ]_vars

EscapeWithoutOverlaySeen ==
    /\ last.ev = "keydown"
    /\ last.k = "Escape"
    /\ body = <<>>
    /\ timers = <<>>
    /\ Len(nodes) > 0

\* C9: a video click opens the VIDEO overlay in the click itself; a call-to-action
\* click opens nothing by itself and sets one pending open, which is never
\* cancelled and opens one INFO_REQUEST overlay exactly 300 units after the click.
OpenTiming ==
    [][/\ ClickVideo => Len(nodes') = Len(nodes) + 1
       /\ \A b \in CtaButtons : ClickCta(b) =>
             Cardinality(OpenTimers(timers')) = Cardinality(OpenTimers(timers)) + 1
       /\ \A i \in OpenTimers(timers) : timers[i].age <= OpenDelay
       /\ Cardinality(OpenTimers(timers')) > Cardinality(OpenTimers(timers)) =>
             /\ nodes' = nodes
             /\ body' = body
       /\ Cardinality(OpenTimers(timers')) < Cardinality(OpenTimers(timers)) =>
             /\ Cardinality(OpenTimers(timers')) = Cardinality(OpenTimers(timers)) - 1
             /\ Len(nodes') = Len(nodes) + 1
             /\ nodes'[Len(nodes')].markup = DemoMarkup
       /\ Len(nodes') > Len(nodes) =>
             /\ Len(nodes') = Len(nodes) + 1
             /\ body' = Append(body, Len(nodes'))
             /\ IF "video-modal" \in nodes'[Len(nodes')].markup
                  THEN timers' = timers
                  ELSE \E i \in OpenTimers(timers) :
                          /\ timers[i].age = OpenDelay
                          /\ timers' = RemoveAt(timers, i)
      ]_vars

DelayedOpenSeen ==
    /\ \E o \in Attached : IsInfoRequest(o) /\ nodes[o].active
    /\ \E o \in Attached : ~ IsInfoRequest(o)
    /\ Pending("open") = {}

\* C10: the document holds at most one style node per marker id, present as soon
\* as an operation needed it.
StylesInjectedOnce ==
    /\ Count(head, "modal-styles") <= 1
    /\ Count(head, "ripple-styles") <= 1
    /\ nodes # <<>> => Count(head, "modal-styles") = 1
    /\ (\E i \in DOMAIN timers : timers[i].kind \in {"ripple", "open"})
          => Count(head, "ripple-styles") = 1

StylesReusedSeen ==
    /\ Len(nodes) >= 2
    /\ \E b \in CtaButtons : ripples[b] > 0
    /\ Len(head) = 2

-----------------------------------------------------------------------------
(* Properties of the scroll animations *)

\* The delay the attribute asks for: d x 100, an absent attribute counting as 0
ExpectedDelay(e) ==
    IF dataDelay[e] = Absent THEN 0 ELSE ToNumber(dataDelay[e]) * 100

RevealTimers(e) == {i \in DOMAIN timers : timers[i].kind = "reveal" /\ timers[i].target = e}

\* C7: 'visible' is set at most once per element, only after the element was
\* reported intersecting, and the element is deregistered in the callback that
\* saw it intersect, so that no second reveal is ever scheduled.
RevealOnce ==
    \A e \in Elements :
        /\ reveals[e] + Cardinality(RevealTimers(e)) <= 1
        /\ e \in visible => e \in intersected
        /\ e \in intersected <=> e \notin observed
        /\ e \in intersected <=> reveals[e] + Cardinality(RevealTimers(e)) = 1

LaterCallbackSeen ==
    /\ last.ev = "intersection"
    /\ \E e \in visible : reveals[e] = 1 /\ e \notin observed

\* C8: an element becomes visible exactly d x 100 units after the callback that
\* saw it intersect, and not before (an absent attribute: at once).
RevealAfterDelay ==
    [][\A e \in Elements :
          /\ RevealTimers(e) # {} => e \notin visible
          /\ e \in visible' \ visible =>
                \E i \in RevealTimers(e) :
                    /\ timers[i].age = ExpectedDelay(e)
                    /\ timers' = RemoveAt(timers, i)
      ]_vars

StaggeredRevealSeen ==
    \E e, f \in Elements :
        /\ dataDelay[e] = "2"
        /\ dataDelay[f] = Absent
        /\ {e, f} \subseteq visible

-----------------------------------------------------------------------------
(* Properties of the scroll lock *)

\* C13: background scroll is frozen in every state in which the document holds an
\* overlay on which Close has not been invoked.
ScrollFrozenWhileOpen ==
    (\E o \in Attached : ~ Closing(o)) => bodyOverflow = "hidden"

\* C14: a Close on an overlay that is already closing adds nothing to the first
\* one: when its timer runs, the overlay is already gone and the document, the
\* other overlays and the background-scroll flag stay as the first Close left them.
RepeatedCloseChangesNothing ==
    [][\A i \in Pending("close") :
          (FireClose(i) /\ ~ InDocument(timers[i].target)) =>
              UNCHANGED <<body, bodyOverflow, nodes>>
      ]_vars

-----------------------------------------------------------------------------
(* Properties of the smooth scroll and of the header's shadow *)

\* C11 (as amended): a click on an in-page anchor whose href names an existing
\* element requests a scroll to exactly target-top + current-offset - 80 and
\* changes nothing else; the value is passed on unclamped.  A click on an anchor
\* whose href is '#' or names no element changes nothing.
AnchorScrollsToOffset ==
    [][\A href \in Hrefs :
          (last'.ev = "anchor" /\ last'.k = href) =>
              IF href \in Targets
                THEN /\ scrollRequest' =
                          <<elementPosition(href) + pageYOffset - HeaderOffset>>
                     /\ UNCHANGED <<modalVars, animVars, timers,
                                    pageYOffset, scrollPending, boxShadow, lastScroll>>
                ELSE UNCHANGED <<modalVars, animVars, timers, scrollVars>>
      ]_vars

\* A click with a scroll offset other than 0 that asks for a negative destination
NegativeDestinationSeen ==
    /\ last.ev = "anchor"
    /\ last.k \in Targets
    /\ pageYOffset > 0
    /\ scrollRequest # <<>>
    /\ scrollRequest[1] < 0

\* C11 (as stated): as above, and the destination requested is never negative nor
\* beyond the largest scroll offset of the document.
AnchorScrollsWithinBounds ==
    [][\A href \in Hrefs :
          (last'.ev = "anchor" /\ last'.k = href) =>
              IF href \in Targets
                THEN /\ scrollRequest' =
                          <<elementPosition(href) + pageYOffset - HeaderOffset>>
                     /\ scrollRequest'[1] >= 0
                     /\ scrollRequest'[1] <= MaxScroll
                ELSE UNCHANGED <<modalVars, animVars, timers, scrollVars>>
      ]_vars

\* C12: once the scroll listener has run, the header carries the shadow if and only
\* if the current scroll offset is strictly greater than 50, whatever the offsets
\* of the scroll events before it were.
ShadowFollowsOffset ==
    last.ev = "scroll" =>
        /\ boxShadow \in {Shadow, "none"}
        /\ boxShadow = Shadow <=> pageYOffset > ShadowThreshold

\* The listener has run with the scroll offset at the threshold itself
ListenerAtThresholdSeen ==
    /\ last.ev = "scroll"
    /\ pageYOffset = ShadowThreshold
    /\ boxShadow = "none"

====
